---- MODULE Spec2Model ----
(***************************************************************************)
(* Model of the retrieval evaluation framework, src/src/evaluation.py:     *)
(* class RetrievalEvaluator with its test-case collection, its result set  *)
(* and its metrics.                                                         *)
(*                                                                         *)
(* Python floats are modelled as exact rationals [num, den] in lowest      *)
(* terms; Optional values as sequences of length 0 (None) or 1.            *)
(* The timestamp fields (datetime.now()) are not modelled.                 *)
(***************************************************************************)
EXTENDS Integers, Sequences, FiniteSets, TLC

VARIABLES
    k,            \* self.k, the evaluator's default k
    test_cases,   \* self.test_cases
    results,      \* self.results
    pc,           \* "idle", or "running" while run_evaluation is in its loop
    run_k,        \* the local k of run_evaluation
    latencies,    \* the local latencies of run_evaluation
    run_i,        \* the loop index i of run_evaluation
    calls,        \* the retriever's log: the calls of the current run and how each ended
    ret,          \* what the last finished call returned or raised
    export_file,  \* what export_results last wrote to its file
    arg,          \* the arguments of a single evaluate_single call (SpecEval);
                  \* under SpecFiles, the collection before the last call and the
                  \* records that call was given
    cases_file,   \* what save_test_cases last wrote to its file
    fresh_cases,  \* self.test_cases of a second, fresh evaluator
    fresh_summary, \* what run_evaluation returned on the second evaluator
    messages,     \* st.session_state.messages of the chat UI (src/app.py)
    vector_store, \* what st.session_state.vector_store holds
    rag_chain,    \* the calls st.session_state.rag_chain has received
    api_key       \* whether OPENAI_API_KEY is set

\* The chat UI's variables
chat_vars == <<messages, vector_store, rag_chain, api_key>>

\* The evaluators' variables
eval_vars ==
    <<k, test_cases, results, pc, run_k, run_i, latencies, calls, ret, export_file, arg,
      cases_file, fresh_cases, fresh_summary>>

vars == <<eval_vars, chat_vars>>

----------------------------------------------------------------------------
(* Bounds of the model *)

MaxK == 5
MaxRetrieved == 3
MaxExpected == 2
MaxCases == 3
MaxFileRecords == 2
MaxLatencies == 5
MaxSummaryCases == 2
MaxSingleCases == 2
MaxSingleCalls == 1
MaxMessages == 4
MaxChainCalls == 2
MaxChunks == 1
MaxOrderCases == 3

(* Program constants *)

DefaultK == 5

----------------------------------------------------------------------------
(* Values *)

None == <<>>
Some(x) == <<x>>

RECURSIVE GCD(_, _)
GCD(a, b) == IF b = 0 THEN a ELSE GCD(b, a % b)

\* What stands for the ZeroDivisionError of a division by zero
ZeroDivision == [num |-> 1, den |-> 0]

\* The float n / d, for n >= 0 and d >= 0
Frac(n, d) ==
    IF d = 0 THEN ZeroDivision
    ELSE IF n = 0 THEN [num |-> 0, den |-> 1]
    ELSE LET g == GCD(n, d) IN [num |-> n \div g, den |-> d \div g]

Zero == Frac(0, 1)
One == Frac(1, 1)

RAdd(a, b) == Frac(a.num * b.den + b.num * a.den, a.den * b.den)
RDiv(a, n) == Frac(a.num, a.den * n)

ToSet(s) == {s[i] : i \in DOMAIN s}

SeqsUpTo(S, n) == UNION {[1..m -> S] : m \in 0..n}

\* Python's s[:n]
Slice(s, n) ==
    IF n >= 0 THEN SubSeq(s, 1, IF n < Len(s) THEN n ELSE Len(s))
    ELSE SubSeq(s, 1, IF Len(s) + n > 0 THEN Len(s) + n ELSE 0)

\* Python's `a or b` for an Optional[int] a
Or(a, b) == IF a = None \/ a = Some(0) THEN b ELSE a[1]

\* Python's dict.get(key, default)
Get(d, key, default) == IF key \in DOMAIN d THEN d[key] ELSE default

----------------------------------------------------------------------------
(* Source identifiers and retrieved documents *)

SourceFiles == {"syllabus.pdf", "notes.pdf", "schedule.pdf"}

\* A retrieved document: its metadata may lack the source_file key
Documents ==
    {[metadata |-> [source_file |-> s, chunk_index |-> 0]] : s \in SourceFiles}
        \cup {[metadata |-> [chunk_index |-> 0]]}

----------------------------------------------------------------------------
(* The metrics *)

\* Mutant: divides by the number of items the top-k slice holds
calculate_precision_by_returned(retrieved, relevant, kk) ==
    IF kk = 0 THEN Zero
    ELSE LET retrieved_at_k == Slice(retrieved, kk)
             relevant_retrieved == Cardinality(ToSet(retrieved_at_k) \cap ToSet(relevant))
         IN Frac(relevant_retrieved, Len(retrieved_at_k))

calculate_precision_at_k(retrieved, relevant, kk) ==
    IF kk = 0 THEN Zero
    ELSE LET retrieved_at_k == Slice(retrieved, kk)
             relevant_retrieved == Cardinality(ToSet(retrieved_at_k) \cap ToSet(relevant))
         IN Frac(relevant_retrieved, kk)

\* Mutant: counts the matching items of the list, duplicates included
calculate_recall_with_duplicates(retrieved, relevant, kk) ==
    IF Len(relevant) = 0 THEN Zero
    ELSE LET retrieved_at_k == Slice(retrieved, kk)
             relevant_retrieved ==
                 Cardinality({i \in DOMAIN retrieved_at_k : retrieved_at_k[i] \in ToSet(relevant)})
         IN Frac(relevant_retrieved, Len(relevant))

\* Mutant: the guard against an empty list of relevant sources is missing
calculate_recall_unguarded(retrieved, relevant, kk) ==
    LET retrieved_at_k == Slice(retrieved, kk)
        relevant_retrieved == Cardinality(ToSet(retrieved_at_k) \cap ToSet(relevant))
    IN Frac(relevant_retrieved, Len(relevant))

calculate_recall_at_k(retrieved, relevant, kk) ==
    IF Len(relevant) = 0 THEN Zero
    ELSE LET retrieved_at_k == Slice(retrieved, kk)
             relevant_retrieved == Cardinality(ToSet(retrieved_at_k) \cap ToSet(relevant))
         IN Frac(relevant_retrieved, Len(relevant))

calculate_reciprocal_rank(retrieved, relevant) ==
    LET found == {i \in DOMAIN retrieved : retrieved[i] \in ToSet(relevant)}
    IN IF found = {} THEN Zero
       ELSE Frac(1, CHOOSE i \in found : \A j \in found : i <= j)

\* retrieved_sources of evaluate_single
extract_sources(documents) ==
    [i \in DOMAIN documents |-> Get(documents[i].metadata, "source_file", "Unknown")]

\* Mutant: looks for a hit in the full list
calculate_hit_anywhere(retrieved_sources, expected_sources, kk) ==
    \E i \in DOMAIN retrieved_sources : retrieved_sources[i] \in ToSet(expected_sources)

\* hit of evaluate_single
calculate_hit(retrieved_sources, expected_sources, kk) ==
    \E i \in DOMAIN Slice(retrieved_sources, kk) :
        Slice(retrieved_sources, kk)[i] \in ToSet(expected_sources)

\* The k evaluate_single works with
effective_k(karg, self_k) == Or(karg, self_k)

\* The call evaluate_single makes to the retriever, logged with how it ended
retrieve_call(query, course_id, karg, self_k, outcome) ==
    [query |-> query, course_id |-> course_id, k |-> effective_k(karg, self_k),
     outcome |-> outcome]

\* Mutant: the reciprocal rank is looked for in the top-k slice only
evaluate_single_rr_top_k(query, expected_sources, course_id, karg, self_k, documents, latency_ms) ==
    LET kk == effective_k(karg, self_k)
        retrieved_sources == extract_sources(documents)
    IN [query |-> query,
        expected_sources |-> expected_sources,
        retrieved_sources |-> retrieved_sources,
        precision_at_k |-> calculate_precision_at_k(retrieved_sources, expected_sources, kk),
        recall_at_k |-> calculate_recall_at_k(retrieved_sources, expected_sources, kk),
        reciprocal_rank |->
            calculate_reciprocal_rank(Slice(retrieved_sources, kk), expected_sources),
        hit |-> calculate_hit(retrieved_sources, expected_sources, kk),
        latency_ms |-> latency_ms]

\* evaluate_single, given what the retriever returned and the time it took
evaluate_single(query, expected_sources, course_id, karg, self_k, documents, latency_ms) ==
    LET kk == effective_k(karg, self_k)
        retrieved_sources == extract_sources(documents)
    IN [query |-> query,
        expected_sources |-> expected_sources,
        retrieved_sources |-> retrieved_sources,
        precision_at_k |-> calculate_precision_at_k(retrieved_sources, expected_sources, kk),
        recall_at_k |-> calculate_recall_at_k(retrieved_sources, expected_sources, kk),
        reciprocal_rank |-> calculate_reciprocal_rank(retrieved_sources, expected_sources),
        hit |-> calculate_hit(retrieved_sources, expected_sources, kk),
        latency_ms |-> latency_ms]

----------------------------------------------------------------------------
(* Results of calls *)

NoRet == [op |-> "none", error |-> "none", value |-> None]
Returned(op, value) == [op |-> op, error |-> "none", value |-> value]
Raised(op, error) == [op |-> op, error |-> error, value |-> None]

NoFile == [written |-> FALSE]
NoArg == [used |-> FALSE]

\* The chat UI before its first script run
NoChat ==
    /\ messages = <<>>
    /\ vector_store = [total_chunks |-> 0]
    /\ rag_chain = <<>>
    /\ api_key = FALSE

----------------------------------------------------------------------------
(* SpecEval: one evaluate_single call on a freshly constructed evaluator,  *)
(* its arguments and the retriever's answer drawn from bounded sets.       *)

ExpectedIds == SourceFiles \cup {"Unknown"}

EvalInputs ==
    [query : {"What is the grading policy?"},
     expected_sources : SeqsUpTo(ExpectedIds, MaxExpected),
     course_id : {None},
     k : {None} \cup {Some(n) : n \in 0..MaxK},
     documents : SeqsUpTo(Documents, MaxRetrieved),
     latency_ms : {10}]

\* The evaluator is built with the default k, or with any k where the call reads it
InitEval ==
    /\ arg \in EvalInputs
    /\ k \in (IF arg.k \in {None, Some(0)} THEN 0..MaxK ELSE {DefaultK})
    /\ test_cases = <<>>
    /\ results = <<>>
    /\ pc = "input"
    /\ run_k = 0
    /\ run_i = 0
    /\ latencies = <<>>
    /\ calls = <<>>
    /\ ret = NoRet
    /\ export_file = NoFile
    /\ cases_file = NoFile
    /\ fresh_cases = <<>>
    /\ fresh_summary = None
    /\ NoChat

\* evaluate_single returns
EvalReturns ==
    /\ pc = "input"
    /\ pc' = "done"
    /\ calls' = Append(calls, retrieve_call(arg.query, arg.course_id, arg.k, k, "returned"))
    /\ ret' = Returned("evaluate_single",
                       evaluate_single(arg.query, arg.expected_sources, arg.course_id,
                                       arg.k, k, arg.documents, arg.latency_ms))
    /\ UNCHANGED <<chat_vars, fresh_summary, k, test_cases, results, run_k, run_i, latencies, export_file,
                   arg, cases_file, fresh_cases>>

\* the retriever raises inside evaluate_single
EvalRaises ==
    /\ pc = "input"
    /\ pc' = "done"
    /\ calls' = Append(calls, retrieve_call(arg.query, arg.course_id, arg.k, k, "raised"))
    /\ ret' = Raised("evaluate_single", "RetrievalError")
    /\ UNCHANGED <<chat_vars, fresh_summary, k, test_cases, results, run_k, run_i, latencies, export_file,
                   arg, cases_file, fresh_cases>>

NextEval == EvalReturns \/ EvalRaises

SpecEval == InitEval /\ [][NextEval]_vars

----------------------------------------------------------------------------
(* Spec: the evaluator as a state machine.  One caller, one thread: while  *)
(* run_evaluation is in its loop (pc = "running") nothing else is called.  *)

\* The test cases a caller registers: add_test_case takes any query (also "")
\* and any list of expected sources (also an empty one)
TestCasePool ==
    {[query |-> "What is the grading policy?", expected_sources |-> <<"syllabus.pdf">>,
      course_id |-> None],
     [query |-> "", expected_sources |-> <<>>, course_id |-> Some("CS101")]}

\* What the retriever answers during a run, and how long it takes
RunDocuments ==
    {<<>>,
     <<[metadata |-> [chunk_index |-> 0]],
       [metadata |-> [source_file |-> "syllabus.pdf", chunk_index |-> 0]]>>}
Latencies == {10}

\* The k arguments a caller passes to run_evaluation
RunKArgs == {None, Some(0), Some(1)}

\* The records of a test-case file: a JSON object may lack any of the keys
FileRecords ==
    TestCasePool
    \cup {[query |-> "What is the grading policy?", expected_sources |-> <<"syllabus.pdf">>],
          [query |-> "What is the grading policy?", course_id |-> None],
          [expected_sources |-> <<"syllabus.pdf">>, course_id |-> None]}

\* A test-case file: JSON text holding a list of records, or not JSON at all
Files ==
    {[wellformed |-> TRUE, cases |-> cs] : cs \in SeqsUpTo(FileRecords, MaxFileRecords)}
    \cup {[wellformed |-> FALSE, cases |-> <<>>]}

Init ==
    /\ k = DefaultK
    /\ test_cases = <<>>
    /\ results = <<>>
    /\ pc = "idle"
    /\ run_k = 0
    /\ run_i = 0
    /\ latencies = <<>>
    /\ calls = <<>>
    /\ ret = NoRet
    /\ export_file = NoFile
    /\ cases_file = NoFile
    /\ fresh_cases = <<>>
    /\ fresh_summary = None
    /\ NoChat
    /\ arg = NoArg

\* The dict add_test_case appends
test_case(query, expected_sources, course_id) ==
    [query |-> query, expected_sources |-> expected_sources, course_id |-> course_id]

\* Mutant: the new case is put in front of the collection
add_test_case_front(cases, query, expected_sources, course_id) ==
    <<test_case(query, expected_sources, course_id)>> \o cases

\* Mutant: a case that is registered already is not registered again
add_test_case_dedup(cases, query, expected_sources, course_id) ==
    IF test_case(query, expected_sources, course_id) \in ToSet(cases) THEN cases
    ELSE Append(cases, test_case(query, expected_sources, course_id))

add_test_case(cases, query, expected_sources, course_id) ==
    Append(cases, test_case(query, expected_sources, course_id))

AddTestCase(query, expected_sources, course_id) ==
    /\ pc = "idle"
    /\ Len(test_cases) < MaxCases
    /\ test_cases' = add_test_case(test_cases, query, expected_sources, course_id)
    /\ ret' = Returned("add_test_case", None)
    /\ UNCHANGED <<chat_vars, fresh_summary, k, results, pc, run_k, run_i, latencies, calls, export_file, arg, cases_file, fresh_cases>>

\* A record of the file has the keys load_test_cases subscripts
has_required_keys(case) == "query" \in DOMAIN case /\ "expected_sources" \in DOMAIN case

\* The records load_test_cases registers before it returns or raises: those
\* before the first record that lacks a required key
loadable_prefix(cases) ==
    LET bad == {i \in DOMAIN cases : ~has_required_keys(cases[i])}
    IN IF bad = {} THEN cases
       ELSE SubSeq(cases, 1, (CHOOSE i \in bad : \A j \in bad : i <= j) - 1)

RECURSIVE load_loop(_, _)
load_loop(cases, loaded) ==
    IF loaded = <<>> THEN cases
    ELSE load_loop(add_test_case(cases, Head(loaded).query, Head(loaded).expected_sources,
                                 Get(Head(loaded), "course_id", None)),
                   Tail(loaded))

\* json.load raises on text that is not JSON
LoadMalformed(file) ==
    /\ pc = "idle"
    /\ ~file.wellformed
    /\ ret' = Raised("load_test_cases", "JSONDecodeError")
    /\ UNCHANGED <<chat_vars, fresh_summary, k, test_cases, results, pc, run_k, run_i, latencies, calls, export_file,
                   arg, cases_file, fresh_cases>>

\* every record has the required keys
LoadTestCases(file) ==
    /\ pc = "idle"
    /\ file.wellformed
    /\ Len(test_cases) + Len(file.cases) <= MaxCases
    /\ loadable_prefix(file.cases) = file.cases
    /\ test_cases' = load_loop(test_cases, file.cases)
    /\ ret' = Returned("load_test_cases", Len(file.cases))
    /\ UNCHANGED <<chat_vars, fresh_summary, k, results, pc, run_k, run_i, latencies, calls, export_file, arg, cases_file, fresh_cases>>

\* case["query"] or case["expected_sources"] raises KeyError in the loop
LoadKeyError(file) ==
    /\ pc = "idle"
    /\ file.wellformed
    /\ Len(test_cases) + Len(file.cases) <= MaxCases
    /\ loadable_prefix(file.cases) # file.cases
    /\ test_cases' = load_loop(test_cases, loadable_prefix(file.cases))
    /\ ret' = Raised("load_test_cases", "KeyError")
    /\ UNCHANGED <<chat_vars, fresh_summary, k, results, pc, run_k, run_i, latencies, calls, export_file, arg, cases_file, fresh_cases>>

----------------------------------------------------------------------------
(* run_evaluation *)

RECURSIVE SumFrac(_, _)
\* sum(f(r) for r in rs), f a field name
SumFrac(rs, f) == IF rs = <<>> THEN Zero ELSE RAdd(Head(rs)[f], SumFrac(Tail(rs), f))

\* Mutant: every result is counted
SumHits_all(rs) == Len(rs)

RECURSIVE SumHits(_)
\* sum(r.hit for r in rs)
SumHits(rs) == IF rs = <<>> THEN 0 ELSE (IF Head(rs).hit THEN 1 ELSE 0) + SumHits(Tail(rs))

RECURSIVE SumInt(_)
SumInt(s) == IF s = <<>> THEN 0 ELSE Head(s) + SumInt(Tail(s))

RECURSIVE Insert(_, _)
Insert(x, s) ==
    IF s = <<>> THEN <<x>>
    ELSE IF x <= Head(s) THEN <<x>> \o s ELSE <<Head(s)>> \o Insert(x, Tail(s))

RECURSIVE Sorted(_)
\* Python's sorted(s)
Sorted(s) == IF s = <<>> THEN <<>> ELSE Insert(Head(s), Sorted(Tail(s)))

\* Mutant: the index is taken in n - 1
p95_index_n_minus_1(n) == (95 * (n - 1)) \div 100

\* int(0.95 * n), as a 0-based index
p95_index(n) == (95 * n) \div 100

p95_latency(lats) ==
    IF Len(lats) > 1 THEN Sorted(lats)[p95_index(Len(lats)) + 1] ELSE lats[1]

\* The EvalSummary run_evaluation builds after its loop
eval_summary(rs, lats) ==
    LET n == Len(rs)
    IN [num_queries |-> n,
        precision_at_k |-> RDiv(SumFrac(rs, "precision_at_k"), n),
        recall_at_k |-> RDiv(SumFrac(rs, "recall_at_k"), n),
        mrr |-> RDiv(SumFrac(rs, "reciprocal_rank"), n),
        hit_rate |-> Frac(SumHits(rs), n),
        avg_latency_ms |-> Frac(SumInt(lats), n),
        p95_latency_ms |-> p95_latency(lats)]

\* Mutant: the guard is missing
run_refused_never(cases) == FALSE

\* The guard of run_evaluation: `if not self.test_cases: raise ValueError`
run_refused(cases) == cases = <<>>

\* run_evaluation with no test case raises
RunNoCases(karg) ==
    /\ pc = "idle"
    /\ run_refused(test_cases)
    /\ ret' = Raised("run_evaluation", "ValueError")
    /\ UNCHANGED <<chat_vars, fresh_summary, k, test_cases, results, pc, run_k, run_i, latencies, calls, export_file,
                   arg, cases_file, fresh_cases>>

\* Mutant: the results of the run before are kept
reset_results_kept == results

\* `self.results = []` before the loop
reset_results == <<>>

\* run_evaluation up to its loop
RunBegin(karg) ==
    /\ pc = "idle"
    /\ ~run_refused(test_cases)
    /\ run_k' = Or(karg, k)
    /\ results' = reset_results
    /\ latencies' = <<>>
    /\ run_i' = 1
    /\ calls' = <<>>
    /\ pc' = "running"
    /\ ret' = NoRet
    /\ UNCHANGED <<chat_vars, fresh_summary, k, test_cases, export_file, arg, cases_file, fresh_cases>>

\* Mutant: the loop walks the collection from its end
next_case_reversed == test_cases[Len(test_cases) + 1 - run_i]

\* The test case the loop is at
next_case == test_cases[run_i]

\* one iteration of the loop: the retriever answers
RunStep(documents, latency_ms) ==
    /\ pc = "running"
    /\ run_i <= Len(test_cases)
    /\ LET case == next_case
           result == evaluate_single(case.query, case.expected_sources,
                                     Get(case, "course_id", None), Some(run_k), k,
                                     documents, latency_ms)
       IN /\ calls' = Append(calls, retrieve_call(case.query, Get(case, "course_id", None),
                                                  Some(run_k), k, "returned"))
          /\ results' = Append(results, result)
          /\ latencies' = Append(latencies, result.latency_ms)
    /\ run_i' = run_i + 1
    /\ UNCHANGED <<chat_vars, fresh_summary, k, test_cases, pc, run_k, ret, export_file, arg, cases_file, fresh_cases>>

\* Mutant: the error is caught, the case is scored as a miss and the loop goes on
RunRaises_skip ==
    /\ pc = "running"
    /\ run_i <= Len(test_cases)
    /\ LET case == next_case
           result == evaluate_single(case.query, case.expected_sources,
                                     Get(case, "course_id", None), Some(run_k), k, <<>>, 10)
       IN /\ calls' = Append(calls, retrieve_call(case.query, Get(case, "course_id", None),
                                                  Some(run_k), k, "raised"))
          /\ results' = Append(results, result)
          /\ latencies' = Append(latencies, result.latency_ms)
    /\ run_i' = run_i + 1
    /\ UNCHANGED <<chat_vars, fresh_summary, k, test_cases, pc, run_k, ret, export_file, arg, cases_file, fresh_cases>>

\* one iteration of the loop: the retriever raises, and so does run_evaluation
RunRaises ==
    /\ pc = "running"
    /\ run_i <= Len(test_cases)
    /\ LET case == next_case
       IN calls' = Append(calls, retrieve_call(case.query, Get(case, "course_id", None),
                                                Some(run_k), k, "raised"))
    /\ pc' = "idle"
    /\ ret' = Raised("run_evaluation", "RetrievalError")
    /\ UNCHANGED <<chat_vars, fresh_summary, k, test_cases, results, run_k, run_i, latencies, export_file,
                   arg, cases_file, fresh_cases>>

\* after the loop: run_evaluation returns its summary
RunEnd ==
    /\ pc = "running"
    /\ run_i > Len(test_cases)
    /\ pc' = "idle"
    /\ ret' = Returned("run_evaluation", eval_summary(results, latencies))
    /\ UNCHANGED <<chat_vars, fresh_summary, k, test_cases, results, run_k, run_i, latencies, calls, export_file,
                   arg, cases_file, fresh_cases>>

----------------------------------------------------------------------------
(* export_results *)

\* The guard of export_results: `if not self.results: raise ValueError`
export_refused(rs) == rs = <<>>

\* Mutant: the last result is not written
export_data_but_last(self_k, rs) ==
    [written |-> TRUE, k |-> self_k, num_queries |-> Len(rs),
     results |-> SubSeq(rs, 1, Len(rs) - 1)]

export_data(self_k, rs) ==
    [written |-> TRUE, k |-> self_k, num_queries |-> Len(rs), results |-> rs]

ExportNoResults ==
    /\ pc = "idle"
    /\ export_refused(results)
    /\ ret' = Raised("export_results", "ValueError")
    /\ UNCHANGED <<chat_vars, fresh_summary, k, test_cases, results, pc, run_k, run_i, latencies, calls, export_file,
                   arg, cases_file, fresh_cases>>

ExportResults ==
    /\ pc = "idle"
    /\ ~export_refused(results)
    /\ export_file' = export_data(k, results)
    /\ ret' = Returned("export_results", None)
    /\ UNCHANGED <<chat_vars, fresh_summary, k, test_cases, results, pc, run_k, run_i, latencies, calls, arg, cases_file, fresh_cases>>

----------------------------------------------------------------------------

Next ==
    \/ \E c \in TestCasePool : AddTestCase(c.query, c.expected_sources, c.course_id)
    \/ \E file \in Files : LoadMalformed(file)
    \/ \E file \in Files : LoadTestCases(file)
    \/ \E file \in Files : LoadKeyError(file)
    \/ \E karg \in RunKArgs : RunNoCases(karg)
    \/ \E karg \in RunKArgs : RunBegin(karg)
    \/ \E documents \in RunDocuments, latency_ms \in Latencies : RunStep(documents, latency_ms)
    \/ RunRaises
    \/ RunEnd
    \/ ExportNoResults
    \/ ExportResults

Spec == Init /\ [][Next]_vars

----------------------------------------------------------------------------
(* JSON, as json.dump writes and json.load reads the test cases: a value   *)
(* is null, a string, an array of values or an object of named values.     *)

JNull == [t |-> "null"]
JString(str) == [t |-> "string", v |-> str]
JArray(items) == [t |-> "array", v |-> items]
JObject(members) == [t |-> "object", v |-> members]

\* Mutant: None is written as the string "None"
dump_optional_as_text(x) == IF x = None THEN JString("None") ELSE JString(x[1])

\* json.dump of an Optional[str]
dump_optional(x) == IF x = None THEN JNull ELSE JString(x[1])

\* json.dump of a List[str]
dump_list(xs) == JArray([i \in DOMAIN xs |-> JString(xs[i])])

\* json.dump of one test-case dict
dump_case(case) ==
    JObject([query |-> JString(case.query),
             expected_sources |-> dump_list(case.expected_sources),
             course_id |-> dump_optional(case.course_id)])

\* json.dump(self.test_cases, f)
json_dump(cases) == JArray([i \in DOMAIN cases |-> dump_case(cases[i])])

\* json.load of a string or null
load_optional(j) == IF j.t = "null" THEN None ELSE Some(j.v)

\* json.load of an array of strings
load_list(j) == [i \in DOMAIN j.v |-> j.v[i].v]

\* json.load of one object of a test-case file
load_case(j) ==
    [key \in DOMAIN j.v |->
        CASE key = "course_id" -> load_optional(j.v[key])
          [] key = "expected_sources" -> load_list(j.v[key])
          [] OTHER -> j.v[key].v]

\* json.load(f) of a test-case file
json_load(j) == [i \in DOMAIN j.v |-> load_case(j.v[i])]

----------------------------------------------------------------------------
(* SpecFiles: the test-case collection and its files.  add_test_case,      *)
(* load_test_cases and save_test_cases on one evaluator, each call logging *)
(* in arg the collection it found, and load_test_cases of the saved file   *)
(* on a second, fresh evaluator.                                            *)

\* The test cases registered before a save
SavePool ==
    TestCasePool
    \cup {[query |-> "When is the midterm exam scheduled?",
           expected_sources |-> <<"syllabus.pdf", "schedule.pdf">>, course_id |-> None]}

\* What a call found and was given
CallLog(before, cases) == [used |-> TRUE, before |-> before, cases |-> cases]

InitFiles == Init

AddTestCaseLogged(query, expected_sources, course_id) ==
    /\ Len(test_cases) < MaxCases
    /\ test_cases' = add_test_case(test_cases, query, expected_sources, course_id)
    /\ ret' = Returned("add_test_case", None)
    /\ arg' = CallLog(test_cases, <<test_case(query, expected_sources, course_id)>>)
    /\ UNCHANGED <<chat_vars, fresh_summary, k, results, pc, run_k, run_i, latencies, calls, export_file,
                   cases_file, fresh_cases>>

LoadMalformedLogged(file) ==
    /\ ~file.wellformed
    /\ ret' = Raised("load_test_cases", "JSONDecodeError")
    /\ arg' = CallLog(test_cases, file.cases)
    /\ UNCHANGED <<chat_vars, fresh_summary, k, test_cases, results, pc, run_k, run_i, latencies, calls, export_file,
                   cases_file, fresh_cases>>

LoadTestCasesLogged(file) ==
    /\ file.wellformed
    /\ Len(test_cases) + Len(file.cases) <= MaxCases
    /\ loadable_prefix(file.cases) = file.cases
    /\ test_cases' = load_loop(test_cases, file.cases)
    /\ ret' = Returned("load_test_cases", Len(file.cases))
    /\ arg' = CallLog(test_cases, file.cases)
    /\ UNCHANGED <<chat_vars, fresh_summary, k, results, pc, run_k, run_i, latencies, calls, export_file,
                   cases_file, fresh_cases>>

LoadKeyErrorLogged(file) ==
    /\ file.wellformed
    /\ Len(test_cases) + Len(file.cases) <= MaxCases
    /\ loadable_prefix(file.cases) # file.cases
    /\ test_cases' = load_loop(test_cases, loadable_prefix(file.cases))
    /\ ret' = Raised("load_test_cases", "KeyError")
    /\ arg' = CallLog(test_cases, file.cases)
    /\ UNCHANGED <<chat_vars, fresh_summary, k, results, pc, run_k, run_i, latencies, calls, export_file,
                   cases_file, fresh_cases>>

\* What save_test_cases writes; `saved` is not in the file: it remembers the
\* collection that was written
saved_file(cases) == [written |-> TRUE, text |-> json_dump(cases), saved |-> cases]

SaveTestCases ==
    /\ cases_file' = saved_file(test_cases)
    /\ ret' = Returned("save_test_cases", None)
    /\ arg' = CallLog(test_cases, <<>>)
    /\ UNCHANGED <<chat_vars, fresh_summary, k, test_cases, results, pc, run_k, run_i, latencies, calls, export_file,
                   fresh_cases>>

\* RetrievalEvaluator(retriever).load_test_cases(path) on the file saved last
FreshLoad ==
    /\ cases_file.written
    /\ LET cases == json_load(cases_file.text)
       IN /\ fresh_cases' = load_loop(<<>>, loadable_prefix(cases))
          /\ ret' = IF loadable_prefix(cases) = cases
                    THEN Returned("fresh.load_test_cases", Len(cases))
                    ELSE Raised("fresh.load_test_cases", "KeyError")
          /\ arg' = CallLog(<<>>, cases)
    /\ UNCHANGED <<chat_vars, fresh_summary, k, test_cases, results, pc, run_k, run_i, latencies, calls, export_file,
                   cases_file>>

NextFiles ==
    \/ \E c \in SavePool : AddTestCaseLogged(c.query, c.expected_sources, c.course_id)
    \/ \E file \in Files : LoadMalformedLogged(file)
    \/ \E file \in Files : LoadTestCasesLogged(file)
    \/ \E file \in Files : LoadKeyErrorLogged(file)
    \/ SaveTestCases
    \/ FreshLoad

SpecFiles == InitFiles /\ [][NextFiles]_vars

----------------------------------------------------------------------------
(* SpecLatency: run_evaluation at the end of its loop, with the latencies  *)
(* of up to MaxLatencies retriever calls drawn from LatencyValues; what is *)
(* left of the run is the summary.                                          *)

LatencyValues == {10, 20, 30, 40, 50}

LatencyCase == CHOOSE c \in TestCasePool : c.query # ""

\* The result set after a loop in which the retriever answered nothing
\* and took lats[i] for the i-th case
latency_results(lats) ==
    [i \in DOMAIN lats |->
        evaluate_single(LatencyCase.query, LatencyCase.expected_sources,
                        LatencyCase.course_id, Some(DefaultK), DefaultK, <<>>, lats[i])]

InitLatency ==
    /\ k = DefaultK
    /\ latencies \in UNION {[1..n -> LatencyValues] : n \in 1..MaxLatencies}
    /\ test_cases = [i \in DOMAIN latencies |-> LatencyCase]
    /\ results = latency_results(latencies)
    /\ pc = "running"
    /\ run_k = DefaultK
    /\ run_i = Len(latencies) + 1
    /\ calls = [i \in DOMAIN latencies |->
                   retrieve_call(LatencyCase.query, LatencyCase.course_id, Some(DefaultK),
                                 DefaultK, "returned")]
    /\ ret = NoRet
    /\ export_file = NoFile
    /\ arg = NoArg
    /\ cases_file = NoFile
    /\ fresh_cases = <<>>
    /\ fresh_summary = None
    /\ NoChat

NextLatency == RunEnd

SpecLatency == InitLatency /\ [][NextLatency]_vars

----------------------------------------------------------------------------
(* SpecSummary: run_evaluation at the end of its loop over up to           *)
(* MaxSummaryCases test cases, the cases, the retriever's answers and the  *)
(* latencies drawn from bounded sets; what is left is the summary.         *)

SummaryDocuments ==
    {<<>>,
     <<[metadata |-> [source_file |-> "syllabus.pdf", chunk_index |-> 0]]>>,
     <<[metadata |-> [source_file |-> "notes.pdf", chunk_index |-> 0]],
       [metadata |-> [source_file |-> "syllabus.pdf", chunk_index |-> 0]]>>,
     <<[metadata |-> [source_file |-> "syllabus.pdf", chunk_index |-> 0]],
       [metadata |-> [source_file |-> "schedule.pdf", chunk_index |-> 0]]>>}

SummaryLatencies == {10, 20}

\* One iteration of the loop: the case, the retriever's answer, the time
SummaryTrials ==
    [case : SavePool, documents : SummaryDocuments, latency_ms : SummaryLatencies]

\* The result set after a loop over the trials
summary_results(trials, kk) ==
    [i \in DOMAIN trials |->
        evaluate_single(trials[i].case.query, trials[i].case.expected_sources,
                        Get(trials[i].case, "course_id", None), Some(kk), DefaultK,
                        trials[i].documents, trials[i].latency_ms)]

InitSummary ==
    \E trials \in UNION {[1..n -> SummaryTrials] : n \in 1..MaxSummaryCases},
       karg \in {None, Some(1)} :
        /\ k = DefaultK
        /\ run_k = Or(karg, DefaultK)
        /\ test_cases = [i \in DOMAIN trials |-> trials[i].case]
        /\ results = summary_results(trials, run_k)
        /\ latencies = [i \in DOMAIN trials |-> trials[i].latency_ms]
        /\ pc = "running"
        /\ run_i = Len(trials) + 1
        /\ calls = [i \in DOMAIN trials |->
                       retrieve_call(trials[i].case.query,
                                     Get(trials[i].case, "course_id", None),
                                     Some(run_k), DefaultK, "returned")]
        /\ ret = NoRet
        /\ export_file = NoFile
        /\ arg = NoArg
        /\ cases_file = NoFile
        /\ fresh_cases = <<>>
        /\ fresh_summary = None
        /\ NoChat

NextSummary == RunEnd

SpecSummary == InitSummary /\ [][NextSummary]_vars

----------------------------------------------------------------------------
(* SpecSingle: evaluate_single called by hand on an evaluator that holds   *)
(* test cases and the results of a run.  The run is at the end of its loop *)
(* over up to MaxSingleCases cases; after it returned, the caller makes up *)
(* to MaxSingleCalls calls of evaluate_single.                             *)

SingleTrials == [case : TestCasePool, documents : RunDocuments, latency_ms : Latencies]

SingleKArgs == {None, Some(1)}

InitSingle ==
    \E trials \in UNION {[1..n -> SingleTrials] : n \in 1..MaxSingleCases},
       karg \in SingleKArgs :
        /\ k = DefaultK
        /\ run_k = Or(karg, DefaultK)
        /\ test_cases = [i \in DOMAIN trials |-> trials[i].case]
        /\ results = summary_results(trials, run_k)
        /\ latencies = [i \in DOMAIN trials |-> trials[i].latency_ms]
        /\ pc = "running"
        /\ run_i = Len(trials) + 1
        /\ calls = [i \in DOMAIN trials |->
                       retrieve_call(trials[i].case.query,
                                     Get(trials[i].case, "course_id", None),
                                     Some(run_k), DefaultK, "returned")]
        /\ ret = NoRet
        /\ export_file = NoFile
        /\ arg = NoArg
        /\ cases_file = NoFile
        /\ fresh_cases = <<>>
        /\ fresh_summary = None
        /\ NoChat

\* Mutant: evaluate_single keeps its result in self.results
results_after_evaluate_single_kept(rs, result) == Append(rs, result)

\* self.results after evaluate_single: the method only returns its result
results_after_evaluate_single(rs, result) == rs

\* evaluate_single, called by hand, returns
SingleReturns(case, karg, documents, latency_ms) ==
    /\ pc = "idle"
    /\ Len(calls) < Len(test_cases) + MaxSingleCalls
    /\ LET result == evaluate_single(case.query, case.expected_sources, case.course_id,
                                     karg, k, documents, latency_ms)
       IN /\ calls' = Append(calls, retrieve_call(case.query, case.course_id, karg, k,
                                                  "returned"))
          /\ ret' = Returned("evaluate_single", result)
          /\ results' = results_after_evaluate_single(results, result)
    /\ UNCHANGED <<chat_vars, fresh_summary, k, test_cases, pc, run_k, run_i, latencies,
                   export_file, arg, cases_file, fresh_cases>>

\* the retriever raises inside evaluate_single, called by hand
SingleRaises(case, karg) ==
    /\ pc = "idle"
    /\ Len(calls) < Len(test_cases) + MaxSingleCalls
    /\ calls' = Append(calls, retrieve_call(case.query, case.course_id, karg, k, "raised"))
    /\ ret' = Raised("evaluate_single", "RetrievalError")
    /\ UNCHANGED <<chat_vars, fresh_summary, k, test_cases, results, pc, run_k, run_i,
                   latencies, export_file, arg, cases_file, fresh_cases>>

NextSingle ==
    \/ RunEnd
    \/ \E case \in TestCasePool, karg \in SingleKArgs, documents \in RunDocuments,
          latency_ms \in Latencies : SingleReturns(case, karg, documents, latency_ms)
    \/ \E case \in TestCasePool, karg \in SingleKArgs : SingleRaises(case, karg)

SpecSingle == InitSingle /\ [][NextSingle]_vars

----------------------------------------------------------------------------
(* Python's float, where rounding matters: an IEEE 754 binary64 number     *)
(* that is not negative, [e, m] standing for m * 2^e with the mantissa m   *)
(* a natural number of exactly 53 binary digits, or for 0.0 with m = 0.    *)
(* Every operation rounds its exact result to the nearest float, ties to   *)
(* the even mantissa.  A natural number is held as its digits in base      *)
(* 2^15, the most significant first and not 0: <<>> is 0.                  *)

MantissaBits == 53

LimbBits == 15

RECURSIVE Pow2(_)
Pow2(n) == IF n = 0 THEN 1 ELSE 2 * Pow2(n - 1)

Limb == Pow2(LimbBits)

RECURSIVE Strip(_)
\* x without leading zero digits
Strip(x) == IF x # <<>> /\ Head(x) = 0 THEN Strip(Tail(x)) ELSE x

RECURSIVE MulFrom(_, _, _, _, _)
MulFrom(x, c, i, carry, acc) ==
    IF i = 0 THEN Strip(<<carry>> \o acc)
    ELSE MulFrom(x, c, i - 1, (x[i] * c + carry) \div Limb,
                 <<(x[i] * c + carry) % Limb>> \o acc)

\* x * c for 0 <= c < 2^15
BigMulSmall(x, c) == MulFrom(x, c, Len(x), 0, <<>>)

RECURSIVE BigShiftLeft(_, _)
\* x * 2^n
BigShiftLeft(x, n) ==
    IF n < LimbBits THEN BigMulSmall(x, Pow2(n))
    ELSE BigShiftLeft(BigMulSmall(x, Pow2(LimbBits - 1)), n - (LimbBits - 1))

\* The digit of x that counts Limb^(i - 1), 0 beyond its length
Digit(x, i) == IF i <= Len(x) THEN x[Len(x) + 1 - i] ELSE 0

RECURSIVE AddFrom(_, _, _, _, _, _)
AddFrom(x, y, i, last, carry, acc) ==
    IF i > last THEN Strip(<<carry>> \o acc)
    ELSE AddFrom(x, y, i + 1, last, (Digit(x, i) + Digit(y, i) + carry) \div Limb,
                 <<(Digit(x, i) + Digit(y, i) + carry) % Limb>> \o acc)

\* x + y
BigAdd(x, y) == AddFrom(x, y, 1, IF Len(x) > Len(y) THEN Len(x) ELSE Len(y), 0, <<>>)

RECURSIVE DivFrom(_, _, _, _, _)
DivFrom(x, n, i, r, acc) ==
    IF i > Len(x) THEN [q |-> Strip(acc), r |-> r]
    ELSE DivFrom(x, n, i + 1, (r * Limb + x[i]) % n, Append(acc, (r * Limb + x[i]) \div n))

\* The quotient and the remainder of x by n, for 1 <= n <= 2^15
BigDivSmall(x, n) == DivFrom(x, n, 1, 0, <<>>)

RECURSIVE IntBitLength(_)
IntBitLength(n) == IF n = 0 THEN 0 ELSE 1 + IntBitLength(n \div 2)

\* The number of binary digits of x
BitLength(x) == IF x = <<>> THEN 0 ELSE (Len(x) - 1) * LimbBits + IntBitLength(x[1])

IsOdd(x) == x # <<>> /\ x[Len(x)] % 2 = 1

FloatZero == [e |-> 0, m |-> <<>>]

RECURSIVE RoundBig(_, _, _)
\* The float nearest to x * 2^e for a natural number x; sticky says that the
\* exact value is a little more than x * 2^e (by less than 2^e)
RoundBig(x, e, sticky) ==
    LET len == BitLength(x)
        drop == len - MantissaBits
    IN IF x = <<>> THEN FloatZero
       ELSE IF drop <= 0 THEN [e |-> e + drop, m |-> BigShiftLeft(x, 0 - drop)]
       ELSE IF drop >= LimbBits
            THEN LET d == BigDivSmall(x, Pow2(LimbBits - 1))
                 IN RoundBig(d.q, e + (LimbBits - 1), sticky \/ d.r # 0)
       ELSE LET d == BigDivSmall(x, Pow2(drop))
                half == Pow2(drop - 1)
                up == d.r > half \/ (d.r = half /\ (sticky \/ IsOdd(d.q)))
                m == IF up THEN BigAdd(d.q, <<1>>) ELSE d.q
            IN IF BitLength(m) > MantissaBits
               THEN [e |-> e + drop + 1, m |-> BigDivSmall(m, 2).q]
               ELSE [e |-> e + drop, m |-> m]

\* float(n) for a small int n >= 0
float_of_int(n) == RoundBig(Strip(<<n>>), 0, FALSE)

\* x + y
float_add(x, y) ==
    IF x = FloatZero THEN y
    ELSE IF y = FloatZero THEN x
    ELSE LET hi == IF x.e >= y.e THEN x ELSE y
             lo == IF x.e >= y.e THEN y ELSE x
             d == hi.e - lo.e
         IN IF d > MantissaBits + 1 THEN hi
            ELSE RoundBig(BigAdd(BigShiftLeft(hi.m, d), lo.m), lo.e, FALSE)

\* x / n for an int n >= 1: the quotient is taken with two binary digits
\* more than the mantissa holds
float_div(x, n) ==
    LET t == IntBitLength(n) + 2
        d == BigDivSmall(BigShiftLeft(x.m, t), n)
    IN RoundBig(d.q, x.e - t, d.r # 0)

\* The float a metric holds: Frac(a, b) stands for the float a / b
float_of_frac(f) == float_div(float_of_int(f.num), f.den)

RECURSIVE float_sum_from(_, _)
float_sum_from(acc, xs) ==
    IF xs = <<>> THEN acc ELSE float_sum_from(float_add(acc, Head(xs)), Tail(xs))

\* sum(xs): float additions from left to right, starting from 0
float_sum(xs) == float_sum_from(FloatZero, xs)

----------------------------------------------------------------------------
(* SpecOrder: two evaluators over one deterministic retriever.  The first  *)
(* holds up to MaxOrderCases test cases, the second the same cases in any  *)
(* order; each runs run_evaluation with the default k, and every retriever *)
(* call takes the same time.  The summaries are computed in floats.        *)

\* A retriever that answers a query always with the same documents
deterministic_retriever(query, course_id) ==
    CASE query = "What is the grading policy?" ->
             <<[metadata |-> [source_file |-> "syllabus.pdf", chunk_index |-> 0]]>>
      [] query = "When is the midterm exam scheduled?" ->
             <<[metadata |-> [source_file |-> "notes.pdf", chunk_index |-> 0]],
               [metadata |-> [source_file |-> "notes.pdf", chunk_index |-> 1]],
               [metadata |-> [source_file |-> "schedule.pdf", chunk_index |-> 0]]>>
      [] OTHER -> <<>>

OrderLatency == CHOOSE latency_ms \in Latencies : TRUE

\* self.results after the loop of run_evaluation over the cases
run_results(cases, kk, self_k) ==
    [i \in DOMAIN cases |->
        evaluate_single(cases[i].query, cases[i].expected_sources,
                        Get(cases[i], "course_id", None), Some(kk), self_k,
                        deterministic_retriever(cases[i].query,
                                                Get(cases[i], "course_id", None)),
                        OrderLatency)]

\* sum(f(r) for r in rs) / n in floats, f a field name
float_mean(rs, f) ==
    float_div(float_sum([i \in DOMAIN rs |-> float_of_frac(rs[i][f])]), Len(rs))

\* The EvalSummary run_evaluation builds after its loop, in floats
float_summary(rs, lats) ==
    LET n == Len(rs)
    IN [num_queries |-> n,
        precision_at_k |-> float_mean(rs, "precision_at_k"),
        recall_at_k |-> float_mean(rs, "recall_at_k"),
        mrr |-> float_mean(rs, "reciprocal_rank"),
        hit_rate |-> float_div(float_of_int(SumHits(rs)), n),
        avg_latency_ms |->
            float_div(float_sum([i \in DOMAIN lats |-> float_of_int(lats[i])]), n),
        p95_latency_ms |-> float_of_int(p95_latency(lats))]

\* The orders a collection of cases can be registered in
Reorderings(cases) ==
    {[i \in DOMAIN cases |-> cases[p[i]]] :
        p \in {q \in [DOMAIN cases -> DOMAIN cases] :
                  \A i, j \in DOMAIN cases : q[i] = q[j] => i = j}}

InitOrder ==
    /\ k = DefaultK
    /\ test_cases \in UNION {[1..n -> SavePool] : n \in 1..MaxOrderCases}
    /\ fresh_cases \in Reorderings(test_cases)
    /\ results = <<>>
    /\ pc = "idle"
    /\ run_k = 0
    /\ run_i = 0
    /\ latencies = <<>>
    /\ calls = <<>>
    /\ ret = NoRet
    /\ export_file = NoFile
    /\ cases_file = NoFile
    /\ fresh_summary = None
    /\ arg = NoArg
    /\ NoChat

\* run_evaluation() on the first evaluator, from its guard to its return
RunOrdered ==
    /\ pc = "idle"
    /\ ~run_refused(test_cases)
    /\ run_k' = Or(None, k)
    /\ results' = run_results(test_cases, run_k', k)
    /\ latencies' = [i \in DOMAIN test_cases |-> results'[i].latency_ms]
    /\ run_i' = Len(test_cases) + 1
    /\ calls' = [i \in DOMAIN test_cases |->
                    retrieve_call(test_cases[i].query, Get(test_cases[i], "course_id", None),
                                  Some(run_k'), k, "returned")]
    /\ ret' = Returned("run_evaluation", float_summary(results', latencies'))
    /\ UNCHANGED <<chat_vars, k, test_cases, pc, export_file, arg, cases_file, fresh_cases,
                   fresh_summary>>

\* run_evaluation() on the second evaluator, built with the same default k
FreshRunOrdered ==
    /\ ~run_refused(fresh_cases)
    /\ LET rs == run_results(fresh_cases, Or(None, k), k)
       IN fresh_summary' =
              Some(float_summary(rs, [i \in DOMAIN rs |-> rs[i].latency_ms]))
    /\ UNCHANGED <<chat_vars, k, test_cases, results, pc, run_k, run_i, latencies, calls,
                   ret, export_file, arg, cases_file, fresh_cases>>

NextOrder == RunOrdered \/ FreshRunOrdered

SpecOrder == InitOrder /\ [][NextOrder]_vars

----------------------------------------------------------------------------
(* SpecChat: the chat UI of src/app.py.  Every action is one run of main() *)
(* after one interaction of the user: init_session_state, render_sidebar,  *)
(* render_main_chat.  The evaluators take no part in it.                   *)

Prompts == {"What is the grading policy?", "When is the midterm?"}

\* What rag_chain.generate_response_stream yields in all: the text of its
\* chunks, and the sources and evidence of the chunk that carries them, if any
Responses ==
    {[text |-> "", sources |-> None, evidence |-> None],
     [text |-> "See the syllabus.", sources |-> Some(<<"syllabus.pdf">>),
      evidence |-> Some(<<"Grading: ...">>)]}

\* The errors generate_response_stream raises
ChainErrors == {"APIConnectionError"}

no_docs_msg == <<"No documents have been uploaded yet.">>

\* f"Error generating response: {str(e)}"
error_msg(e) == <<"Error generating response: ", e>>

user_message(prompt) == [role |-> "user", content |-> <<prompt>>]

notice_message(content) == [role |-> "assistant", content |-> content]

answer_message(response) ==
    [role |-> "assistant", content |-> <<response.text>>, sources |-> response.sources,
     evidence |-> response.evidence]

\* The call render_main_chat makes to the RAG chain: chat_history is
\* messages[:-1], the history without the prompt just appended
chain_call(prompt, msgs) ==
    [question |-> prompt,
     chat_history |-> [i \in 1..(Len(msgs) - 1) |->
                          [role |-> msgs[i].role, content |-> msgs[i].content]]]

\* The session starts with no message; the vector store is persistent and
\* may hold chunks of an earlier session
InitChat ==
    /\ k = DefaultK
    /\ test_cases = <<>>
    /\ results = <<>>
    /\ pc = "idle"
    /\ run_k = 0
    /\ run_i = 0
    /\ latencies = <<>>
    /\ calls = <<>>
    /\ ret = NoRet
    /\ export_file = NoFile
    /\ cases_file = NoFile
    /\ fresh_cases = <<>>
    /\ fresh_summary = None
    /\ arg = NoArg
    /\ messages = <<>>
    /\ vector_store \in {[total_chunks |-> n] : n \in 0..MaxChunks}
    /\ rag_chain = <<>>
    /\ api_key \in BOOLEAN

\* render_sidebar: the Reset Conversation button
ResetConversation ==
    /\ messages' = <<>>
    /\ UNCHANGED <<eval_vars, vector_store, rag_chain, api_key>>

\* render_sidebar: process_uploads indexes the chunks of the uploaded files
ProcessUploads ==
    /\ vector_store.total_chunks < MaxChunks
    /\ vector_store' = [total_chunks |-> vector_store.total_chunks + 1]
    /\ UNCHANGED <<eval_vars, messages, rag_chain, api_key>>

\* render_sidebar: the delete button of a document
DeleteDocument ==
    /\ vector_store.total_chunks > 0
    /\ vector_store' = [total_chunks |-> vector_store.total_chunks - 1]
    /\ UNCHANGED <<eval_vars, messages, rag_chain, api_key>>

\* The chat input is rendered: render_main_chat returns before it without the key
chat_input_rendered == api_key

\* The history after the no-documents branch
messages_after_no_docs(msgs) == Append(msgs, notice_message(no_docs_msg))

\* The history after the try block returned
messages_after_answer(msgs, response) == Append(msgs, answer_message(response))

\* Mutant: the error is shown but not recorded
messages_after_error_shown_only(msgs, e) == msgs

\* The history after the except block
messages_after_error(msgs, e) == Append(msgs, notice_message(error_msg(e)))

\* a prompt while the vector store is empty
PromptNoDocuments(prompt) ==
    /\ chat_input_rendered
    /\ Len(messages) + 2 <= MaxMessages
    /\ vector_store.total_chunks = 0
    /\ messages' = messages_after_no_docs(Append(messages, user_message(prompt)))
    /\ UNCHANGED <<eval_vars, vector_store, rag_chain, api_key>>

\* a prompt the RAG chain answers
PromptAnswered(prompt, response) ==
    /\ chat_input_rendered
    /\ Len(messages) + 2 <= MaxMessages
    /\ Len(rag_chain) < MaxChainCalls
    /\ vector_store.total_chunks # 0
    /\ LET msgs == Append(messages, user_message(prompt))
       IN /\ rag_chain' = Append(rag_chain, chain_call(prompt, msgs))
          /\ messages' = messages_after_answer(msgs, response)
    /\ UNCHANGED <<eval_vars, vector_store, api_key>>

\* a prompt for which the RAG chain raises
PromptError(prompt, e) ==
    /\ chat_input_rendered
    /\ Len(messages) + 2 <= MaxMessages
    /\ Len(rag_chain) < MaxChainCalls
    /\ vector_store.total_chunks # 0
    /\ LET msgs == Append(messages, user_message(prompt))
       IN /\ rag_chain' = Append(rag_chain, chain_call(prompt, msgs))
          /\ messages' = messages_after_error(msgs, e)
    /\ UNCHANGED <<eval_vars, vector_store, api_key>>

NextChat ==
    \/ ResetConversation
    \/ ProcessUploads
    \/ DeleteDocument
    \/ \E prompt \in Prompts : PromptNoDocuments(prompt)
    \/ \E prompt \in Prompts, response \in Responses : PromptAnswered(prompt, response)
    \/ \E prompt \in Prompts, e \in ChainErrors : PromptError(prompt, e)

SpecChat == InitChat /\ [][NextChat]_vars

----------------------------------------------------------------------------
(* Claims about the evaluator's operations, checked under Spec *)

RunReturned == ret.op = "run_evaluation" /\ ret.error = "none"
RunAborted == ret.op = "run_evaluation" /\ ret.error = "RetrievalError"
SomeCallRaised == \E n \in DOMAIN calls : calls[n].outcome = "raised"

\* C1: run_evaluation on an empty test-case collection raises the ValueError
\* and never enters its loop; no summary with num_queries = 0 is ever returned.
C1_RunNeedsCases ==
    /\ (pc = "running") => test_cases # <<>>
    /\ (ret.op = "run_evaluation" /\ test_cases = <<>>) => ret.error = "ValueError"
    /\ RunReturned => ret.value.num_queries >= 1

C1_Witness ==
    /\ test_cases = <<>>
    /\ ret.op = "run_evaluation"
    /\ ret.error = "ValueError"

\* C2: a run is all-or-nothing: a retriever call that raised is the last call
\* of its run (no later case is evaluated), it ends the run with the error,
\* and a run that returns a summary has had every retriever call return.
C2_AllOrNothing ==
    /\ \A n \in DOMAIN calls :
           calls[n].outcome = "raised" => (n = Len(calls) /\ pc = "idle")
    /\ (SomeCallRaised /\ ret.op = "run_evaluation") => RunAborted
    /\ RunAborted => (SomeCallRaised /\ Len(results) = Len(calls) - 1)
    /\ RunReturned => ~SomeCallRaised

\* the retriever raised for the middle one of three cases
C2_Witness ==
    /\ RunAborted
    /\ Len(test_cases) = 3
    /\ Len(calls) = 2
    /\ Len(results) = 1

\* The most recent run returned a summary
RunCompleted ==
    /\ pc = "idle"
    /\ calls # <<>>
    /\ calls[Len(calls)].outcome = "returned"

\* C3 (as claimed): export_results succeeds only when the most recent run
\* returned a summary, and then writes the complete result set of that run.
C3_ExportOnlyAfterCompletedRun ==
    (ret.op = "export_results" /\ ret.error = "none") =>
        (RunCompleted /\ export_file.written /\ export_file.results = results
            /\ Len(export_file.results) = Len(calls))

\* C4: when run_evaluation returns a summary, the result set holds exactly one
\* result per test case, in registration order, and nothing of an earlier run.
C4_OneResultPerCase ==
    RunReturned =>
        /\ Len(results) = Len(test_cases)
        /\ ret.value.num_queries = Len(test_cases)
        /\ \A n \in DOMAIN results :
               /\ results[n].query = test_cases[n].query
               /\ results[n].expected_sources = test_cases[n].expected_sources

\* a second run, after a first run of two cases was exported and a case added
C4_Witness ==
    /\ RunReturned
    /\ Len(results) = 3
    /\ export_file.written
    /\ Len(export_file.results) = 2
    /\ test_cases[1].query # test_cases[2].query

----------------------------------------------------------------------------
(* Claims about evaluate_single and the metrics, checked under SpecEval *)

EvalReturned == pc = "done" /\ ret.op = "evaluate_single" /\ ret.error = "none"

\* The k the retriever was called with
UsedK == calls[1].k

HasDuplicates(s) == \E i, j \in DOMAIN s : i # j /\ s[i] = s[j]

\* The identifiers among the first n of list s that are in list e
Matched(s, e, n) == {s[i] : i \in {j \in DOMAIN s : j <= n}} \cap {e[i] : i \in DOMAIN e}

\* C5: for k >= 1, precision_at_k and recall_at_k lie in [0, 1]: the matched
\* count exceeds neither k nor the number of expected sources.
C5_MetricsInUnitInterval ==
    (EvalReturned /\ UsedK >= 1) =>
        LET r == ret.value
        IN /\ r.precision_at_k.den > 0 /\ r.recall_at_k.den > 0
           /\ 0 <= r.precision_at_k.num /\ r.precision_at_k.num <= r.precision_at_k.den
           /\ 0 <= r.recall_at_k.num /\ r.recall_at_k.num <= r.recall_at_k.den

\* more items than k, duplicates on both sides, every item of the top k matches
C5_Witness ==
    /\ EvalReturned
    /\ UsedK >= 1
    /\ Len(ret.value.retrieved_sources) > UsedK
    /\ HasDuplicates(ret.value.retrieved_sources)
    /\ HasDuplicates(ret.value.expected_sources)
    /\ ret.value.precision_at_k = One

\* C6 (as claimed): evaluate_single called with k = 0 is scored with k = 0
\* and returns precision_at_k = 0.0.
C6_KZeroIsScoredWithZero ==
    (EvalReturned /\ arg.k = Some(0)) =>
        (UsedK = 0 /\ ret.value.precision_at_k = Zero)

\* C7: with no expected sources every result is a miss: recall, precision and
\* reciprocal rank are 0.0 and hit is false, without a division by zero.
C7_NoExpectedSourcesIsMiss ==
    (EvalReturned /\ arg.expected_sources = <<>>) =>
        /\ ret.value.recall_at_k = Zero
        /\ ret.value.precision_at_k = Zero
        /\ ret.value.reciprocal_rank = Zero
        /\ ret.value.hit = FALSE

C7_Witness ==
    /\ EvalReturned
    /\ arg.expected_sources = <<>>
    /\ Len(arg.documents) = MaxRetrieved
    /\ UsedK >= 1

\* The 1-based rank of the first retrieved identifier that is expected, 0 if none
FirstRelevantRank(s, e) ==
    LET found == {i \in DOMAIN s : \E j \in DOMAIN e : s[i] = e[j]}
    IN IF found = {} THEN 0 ELSE CHOOSE i \in found : \A j \in found : i <= j

\* C8: the reciprocal rank is 1/r for the rank r of the first expected
\* identifier in the retriever's full list, and 0.0 iff there is none; a first
\* relevant item at rank k+2 gives reciprocal_rank > 0 together with hit = false.
C8_ReciprocalRankOverFullList ==
    EvalReturned =>
        LET r == ret.value
            rank == FirstRelevantRank(r.retrieved_sources, arg.expected_sources)
        IN /\ Len(r.retrieved_sources) = Len(arg.documents)
           /\ (rank = 0) <=> (r.reciprocal_rank = Zero)
           /\ (rank > 0) => (r.reciprocal_rank.num = 1 /\ r.reciprocal_rank.den = rank)
           /\ (UsedK >= 1 /\ rank = UsedK + 2) => (r.reciprocal_rank.num > 0 /\ r.hit = FALSE)

C8_Witness ==
    /\ EvalReturned
    /\ UsedK >= 1
    /\ FirstRelevantRank(ret.value.retrieved_sources, arg.expected_sources) = UsedK + 2
    /\ ret.value.reciprocal_rank.num > 0
    /\ ret.value.hit = FALSE

\* C9: for k >= 1, hit is true exactly when the first k retrieved identifiers
\* hold an expected source, exactly when precision_at_k > 0 and exactly when
\* recall_at_k > 0.
C9_HitIffPrecisionPositive ==
    (EvalReturned /\ UsedK >= 1) =>
        LET r == ret.value
        IN /\ r.hit <=> (Matched(r.retrieved_sources, arg.expected_sources, UsedK) # {})
           /\ r.hit <=> (r.precision_at_k.num > 0)
           /\ r.hit <=> (r.recall_at_k.num > 0)

\* no hit in the top k although a relevant item follows it
C9_Witness ==
    /\ EvalReturned
    /\ UsedK >= 1
    /\ ret.value.hit = FALSE
    /\ ret.value.reciprocal_rank.num > 0

\* C10: precision_at_k is the number of distinct identifiers both in the
\* first k retrieved items and in expected_sources, divided by k itself;
\* scenarios A and B of the specification give 1/5, 1, 1, true and 0, 0, 0, false.
ScenarioExpected == <<"syllabus.pdf">>
ScenarioA == <<"syllabus.pdf", "notes.pdf", "schedule.pdf">>
ScenarioB == <<"notes.pdf", "schedule.pdf">>

C10_PrecisionDividesByK ==
    (EvalReturned /\ UsedK >= 1) =>
        LET r == ret.value
            matched == Cardinality(Matched(r.retrieved_sources, arg.expected_sources, UsedK))
        IN /\ r.precision_at_k.num * UsedK = matched * r.precision_at_k.den
           /\ r.precision_at_k.den > 0
           /\ (UsedK = 5 /\ arg.expected_sources = ScenarioExpected
                    /\ r.retrieved_sources = ScenarioA) =>
                  (/\ r.precision_at_k = [num |-> 1, den |-> 5]
                   /\ r.recall_at_k = [num |-> 1, den |-> 1]
                   /\ r.reciprocal_rank = [num |-> 1, den |-> 1]
                   /\ r.hit = TRUE)
           /\ (UsedK = 5 /\ arg.expected_sources = ScenarioExpected
                    /\ r.retrieved_sources = ScenarioB) =>
                  (/\ r.precision_at_k = [num |-> 0, den |-> 1]
                   /\ r.recall_at_k = [num |-> 0, den |-> 1]
                   /\ r.reciprocal_rank = [num |-> 0, den |-> 1]
                   /\ r.hit = FALSE)

\* scenario A
C10_Witness ==
    /\ EvalReturned
    /\ arg.k = Some(5)
    /\ arg.expected_sources = ScenarioExpected
    /\ ret.value.retrieved_sources = ScenarioA
    /\ ret.value.precision_at_k = [num |-> 1, den |-> 5]

\* C11 (as claimed): recall_at_k treats expected_sources as a set: when every
\* identifier of a non-empty expected_sources is among the first k retrieved
\* items, recall_at_k is 1.0, also when the list names an identifier twice.
C11_RecallOverExpectedSet ==
    (EvalReturned /\ arg.expected_sources # <<>>
        /\ \A i \in DOMAIN arg.expected_sources :
               arg.expected_sources[i] \in
                   Matched(ret.value.retrieved_sources, arg.expected_sources, UsedK)) =>
        ret.value.recall_at_k = One

\* C15 (as claimed): retrieved_sources is truncated to k: for k >= 1 it never
\* holds more than k identifiers, and holds them in the retriever's return order.
C15_RetrievedSourcesTruncated ==
    (EvalReturned /\ UsedK >= 1) =>
        /\ Len(ret.value.retrieved_sources) <= UsedK
        /\ \A i \in DOMAIN ret.value.retrieved_sources :
               ret.value.retrieved_sources[i] =
                   Get(arg.documents[i].metadata, "source_file", "Unknown")

\* The retriever returned at least one document, none with a source identifier
NoDocumentHasSource ==
    /\ arg.documents # <<>>
    /\ \A i \in DOMAIN arg.documents : "source_file" \notin DOMAIN arg.documents[i].metadata

\* C16 (as claimed): a document without a source identifier never counts as
\* relevant (k >= 1), whatever expected_sources the test case was registered with.
C16_NoSourceNeverMatches ==
    (EvalReturned /\ UsedK >= 1 /\ NoDocumentHasSource) =>
        /\ ret.value.precision_at_k = Zero
        /\ ret.value.recall_at_k = Zero
        /\ ret.value.reciprocal_rank = Zero
        /\ ret.value.hit = FALSE

----------------------------------------------------------------------------
(* Further claims about the evaluator's operations, checked under Spec *)

\* C17 (as claimed): no stored test case has an empty query.
C17_QueriesNonEmpty ==
    \A n \in DOMAIN test_cases : test_cases[n].query # ""

\* C20: add_test_case appends exactly one test case at the end, also one that
\* is registered already, and leaves the result set alone; run_evaluation then
\* evaluates every entry, duplicates included.
IsAddStep ==
    /\ ret'.op = "add_test_case"
    /\ (ret.op # "add_test_case" \/ test_cases' # test_cases)

C20_AddAppendsOne ==
    /\ [][IsAddStep =>
            (/\ Len(test_cases') = Len(test_cases) + 1
             /\ SubSeq(test_cases', 1, Len(test_cases)) = test_cases
             /\ results' = results)]_vars
    /\ [](RunReturned =>
            (ret.value.num_queries = Len(test_cases) /\ Len(calls) = Len(test_cases)))

\* the same case registered three times, and run
C20_Witness ==
    /\ RunReturned
    /\ Len(test_cases) = 3
    /\ test_cases[1] = test_cases[2]
    /\ test_cases[2] = test_cases[3]
    /\ ret.value.num_queries = 3

----------------------------------------------------------------------------
(* Claims about the test-case files, checked under SpecFiles *)

LoadReturned == ret.op = "load_test_cases" /\ ret.error = "none"

SameCase(a, b) ==
    /\ a.query = b.query
    /\ a.expected_sources = b.expected_sources
    /\ a.course_id = b.course_id

\* C12: save_test_cases followed by load_test_cases on a fresh evaluator gives
\* back the saved collection: same length and, index by index, the same query,
\* expected_sources and course_id (None included).
C12_SaveLoadRoundTrip ==
    (ret.op = "fresh.load_test_cases") =>
        /\ ret.error = "none"
        /\ ret.value = Len(cases_file.saved)
        /\ Len(fresh_cases) = Len(cases_file.saved)
        /\ \A n \in DOMAIN fresh_cases : SameCase(fresh_cases[n], cases_file.saved[n])

\* three cases saved and loaded: with and without course_id, with no, one and
\* two expected sources
C12_Witness ==
    /\ ret.op = "fresh.load_test_cases"
    /\ Len(fresh_cases) = 3
    /\ fresh_cases[1].course_id = None
    /\ fresh_cases[2].course_id # None
    /\ Len(fresh_cases[3].expected_sources) = 2

\* C18: a load_test_cases that returns has appended the n records of the file
\* after the cases registered before, in file order, and returns n; the cases
\* registered before are unchanged.
C18_LoadAppendsInOrder ==
    LoadReturned =>
        LET n == Len(arg.cases)
            m == Len(arg.before)
        IN /\ ret.value = n
           /\ Len(test_cases) = m + n
           /\ SubSeq(test_cases, 1, m) = arg.before
           /\ \A i \in 1..n :
                  /\ test_cases[m + i].query = arg.cases[i].query
                  /\ test_cases[m + i].expected_sources = arg.cases[i].expected_sources
                  /\ test_cases[m + i].course_id = Get(arg.cases[i], "course_id", None)

\* two different records loaded after a registered case
C18_Witness ==
    /\ LoadReturned
    /\ Len(arg.before) = 1
    /\ Len(arg.cases) = 2
    /\ arg.cases[1].query # arg.cases[2].query
    /\ arg.before[1].query # arg.cases[1].query

\* C19 (as claimed): a load_test_cases that fails on a record lacking a
\* required key leaves the test-case collection as it was before the call.
C19_FailedLoadRegistersNothing ==
    (ret.op = "load_test_cases" /\ ret.error = "KeyError") => test_cases = arg.before

----------------------------------------------------------------------------
(* Claims about the latency percentile, checked under SpecLatency *)

\* How many of the latencies are below x, and how many are not above it
CountBelow(lats, x) == Cardinality({i \in DOMAIN lats : lats[i] < x})
CountAtMost(lats, x) == Cardinality({i \in DOMAIN lats : lats[i] <= x})

\* C13: p95_latency_ms is the nearest-rank value: the single latency for
\* n = 1, else the element at 0-based index floor(0.95 * n) of the latencies
\* in ascending order; the index is within 0..n-1, so p95 is a measured
\* latency, and it is 50 for the latencies 10, 20, 30, 40, 50.
C13_P95NearestRank ==
    RunReturned =>
        LET n == Len(latencies)
            p95 == ret.value.p95_latency_ms
        IN /\ \E i \in DOMAIN latencies : latencies[i] = p95
           /\ (n = 1) => (p95 = latencies[1])
           /\ (n > 1) =>
                  \E j \in 0..(n - 1) :
                      /\ 100 * j <= 95 * n
                      /\ 95 * n < 100 * (j + 1)
                      /\ CountBelow(latencies, p95) <= j
                      /\ j < CountAtMost(latencies, p95)
           /\ (latencies = <<10, 20, 30, 40, 50>>) => (p95 = 50)

C13_Witness ==
    /\ RunReturned
    /\ latencies = <<10, 20, 30, 40, 50>>
    /\ ret.value.p95_latency_ms = 50

----------------------------------------------------------------------------
(* Claims about the summary, checked under SpecSummary *)

RECURSIVE DenProduct(_, _)
\* A common denominator of field f of the results
DenProduct(rs, f) == IF rs = <<>> THEN 1 ELSE Head(rs)[f].den * DenProduct(Tail(rs), f)

RECURSIVE ScaledSum(_, _, _)
\* The sum of field f of the results, times d
ScaledSum(rs, f, d) ==
    IF rs = <<>> THEN 0
    ELSE (Head(rs)[f].num * d) \div Head(rs)[f].den + ScaledSum(Tail(rs), f, d)

\* x is the arithmetic mean of field f of the results
IsMean(x, rs, f) ==
    /\ x.den > 0
    /\ x.num * Len(rs) * DenProduct(rs, f) = ScaledSum(rs, f, DenProduct(rs, f)) * x.den

HitCount(rs) == Cardinality({i \in DOMAIN rs : rs[i].hit})

\* C14: the summary holds the arithmetic means over the results of the run:
\* precision_at_k, recall_at_k and mrr are the sums of the per-query values
\* over num_queries, hit_rate the number of hits over num_queries; hits
\* true/false with precision 1.0/0.0 give hit_rate 0.5 and precision 0.5.
C14_SummaryIsMean ==
    RunReturned =>
        LET sm == ret.value
        IN /\ sm.num_queries = Len(results)
           /\ IsMean(sm.precision_at_k, results, "precision_at_k")
           /\ IsMean(sm.recall_at_k, results, "recall_at_k")
           /\ IsMean(sm.mrr, results, "reciprocal_rank")
           /\ sm.hit_rate.den > 0
           /\ sm.hit_rate.num * Len(results) = HitCount(results) * sm.hit_rate.den
           /\ (Len(results) = 2 /\ results[1].hit /\ ~results[2].hit
                   /\ results[1].precision_at_k = One /\ results[2].precision_at_k = Zero) =>
                  (/\ sm.hit_rate = [num |-> 1, den |-> 2]
                   /\ sm.precision_at_k = [num |-> 1, den |-> 2])

\* scenario C of the specification
C14_Witness ==
    /\ RunReturned
    /\ Len(results) = 2
    /\ results[1].hit /\ ~results[2].hit
    /\ results[1].precision_at_k = One /\ results[2].precision_at_k = Zero
    /\ ret.value.hit_rate = [num |-> 1, den |-> 2]
    /\ ret.value.precision_at_k = [num |-> 1, den |-> 2]

----------------------------------------------------------------------------
(* Claims about evaluate_single called by hand, checked under SpecSingle *)

\* A step in which an evaluate_single call ends
IsSingleStep == ret'.op = "evaluate_single" /\ calls' # calls

\* C21: evaluate_single leaves the evaluator's stored state unchanged: the
\* test-case collection, the result set and the default k are after the call
\* what they were before it, whether it returns a result or the retriever raises.
C21_EvaluateSingleHasNoSideEffect ==
    [][IsSingleStep => (test_cases' = test_cases /\ results' = results /\ k' = k)]_vars

\* a call that returned a result the stored result set does not hold
C21_Witness ==
    /\ ret.op = "evaluate_single"
    /\ ret.error = "none"
    /\ Len(test_cases) = 2
    /\ Len(results) = 2
    /\ \A n \in DOMAIN results : results[n] # ret.value

----------------------------------------------------------------------------
(* Claims about the retriever calls of a run, checked under Spec *)

\* C22: during one run_evaluation the retriever is called strictly one call
\* after the other, once per registered test case, in registration order, each
\* time with that case's query and course_id and with the same k; a call is
\* made only after every call before it has returned.
C22_SequentialInOrder ==
    /\ Len(calls) <= Len(test_cases)
    /\ (pc = "running") => (Len(calls) = run_i - 1)
    /\ RunReturned => (Len(calls) = Len(test_cases))
    /\ \A n \in DOMAIN calls :
           /\ calls[n].query = test_cases[n].query
           /\ calls[n].course_id = test_cases[n].course_id
           /\ calls[n].k = calls[1].k
           /\ (pc = "running") => (calls[n].k = run_k)
           /\ (n < Len(calls)) => (calls[n].outcome = "returned")

\* a run over three cases, not all the same, with a k that is not the default
C22_Witness ==
    /\ RunReturned
    /\ Len(calls) = 3
    /\ calls[1].query # calls[2].query
    /\ calls[2].course_id # calls[3].course_id
    /\ calls[1].k # k

----------------------------------------------------------------------------
(* Claims about export_results, checked under Spec *)

ExportReturned == ret.op = "export_results" /\ ret.error = "none"

\* C24: an export_results that returns has written one record per stored
\* result, in test-case registration order, with num_queries the number of
\* records written, and has changed neither the result set nor the test cases.
C24_ExportWritesEveryResult ==
    /\ [](ExportReturned =>
            /\ export_file.written
            /\ Len(export_file.results) = Len(results)
            /\ export_file.num_queries = Len(export_file.results)
            /\ \A n \in DOMAIN results :
                   /\ export_file.results[n] = results[n]
                   /\ export_file.results[n].query = test_cases[n].query
                   /\ export_file.results[n].expected_sources = test_cases[n].expected_sources)
    /\ [][(ret'.op = "export_results") =>
            (results' = results /\ test_cases' = test_cases)]_vars

\* three results of different cases written
C24_Witness ==
    /\ ExportReturned
    /\ Len(export_file.results) = 3
    /\ export_file.results[1].query # export_file.results[2].query
    /\ export_file.results[2].retrieved_sources # export_file.results[3].retrieved_sources

\* C25 (as claimed): the k export_results writes is the k the exported results
\* were computed with, also when run_evaluation was given a k other than the
\* evaluator's default.
C25_ExportedKIsUsedK ==
    (ExportReturned /\ calls # <<>>) => (export_file.k = calls[1].k)

----------------------------------------------------------------------------
(* Claims about the chat UI, checked under SpecChat *)

\* The history strictly alternates user, assistant, starting with user
Alternates(msgs) ==
    /\ Len(msgs) % 2 = 0
    /\ \A i \in DOMAIN msgs : msgs[i].role = (IF i % 2 = 1 THEN "user" ELSE "assistant")

----------------------------------------------------------------------------
(* Claims about the order of the test cases, checked under SpecOrder *)

====
